---- MODULE Spec2Model ----
(***************************************************************************)
(* Model of dist-js/index.mjs of tauri-plugin-shell: the EventEmitter, the *)
(* Command session built on it, and the bridge that answers spawn requests *)
(* and streams tagged events into the session's callback.                 *)
(*                                                                         *)
(* JavaScript is single threaded: a listener runs to completion inside the *)
(* emit() that called it, and can itself call the emitter.  The call stack *)
(* of emit() invocations is therefore part of the state.                   *)
(***************************************************************************)
EXTENDS Integers, Sequences, FiniteSets, Bags, TLC

(***************************************************************************)
(* Bounds of the model.                                                    *)
(***************************************************************************)
MaxOps == 4        \* calls of emitter methods made by user code
MaxSteps == 5      \* calls made on a Command by user code and by the bridge

(***************************************************************************)
(* Values.                                                                 *)
(***************************************************************************)
Emitters == {"command", "stdout", "stderr"}
Names == {"error", "close", "data"}
Fns == {"f", "g"}          \* the functions user code registers
NoEvent == "undefined"     \* removeAllListeners() called without argument
Null == -1                 \* JavaScript null / absent field
LF == 10                   \* "\n", and the byte collectOutput appends

\* Payloads are records of one shape: a chunk carries data, a Terminated
\* payload carries code and signal.
Chunk(d) == [data |-> d, code |-> Null, signal |-> Null]
Exit(c, s) == [data |-> <<>>, code |-> c, signal |-> s]

\* Listeners: a user function, or the wrapper closure of a once() call
\* (every call creates a new closure, told apart by id).
Fn(f) == [kind |-> "fn", id |-> 0, fn |-> f, em |-> "", name |-> ""]
Wrapper(n, e, name, f) == [kind |-> "once", id |-> n, fn |-> f, em |-> e, name |-> name]
Closure(k, n) == [kind |-> k, id |-> n, fn |-> "", em |-> "", name |-> ""]

VARIABLES
  eventListeners,  \* per emitter: event name -> array of listeners
  stack,           \* emit() calls in progress, innermost last
  nextWrapper,     \* number of once-wrappers created so far
  ops,             \* number of calls made so far by user code and by the bridge
  calls,           \* log of user-function invocations
  lastEmit,        \* what the last completed emit() returned
  lastCall,        \* the last EventEmitter method user code called
  registered,      \* per emitter and name: bag of entries added and not removed
  args,            \* Command.args: the array the caller passed
  frozen,          \* whether Object.freeze was applied to that array
  typeErrors,      \* mutations of the array refused because it is frozen
  encoding,        \* Command.options.encoding
  requests,        \* spawn requests handed to invoke(), in order
  delivered,       \* events the bridge delivered to the callback, in order
  promises,        \* one per execute() call: its promise and its two buffers
  listenAt         \* number of events delivered when user code subscribed, or Null

emitterVars ==
  <<eventListeners, stack, nextWrapper, ops, calls, lastEmit, lastCall, registered>>

commandVars == <<args, frozen, typeErrors, encoding, requests, delivered, promises, listenAt>>

vars == <<emitterVars, commandVars>>

(***************************************************************************)
(* EventEmitter: the methods as functions of one emitter's registry.       *)
(***************************************************************************)
RECURSIVE Filter(_, _)
Filter(s, l) ==
  IF s = <<>> THEN <<>>
  ELSE IF Head(s) # l THEN <<Head(s)>> \o Filter(Tail(s), l)
       ELSE Filter(Tail(s), l)

EmptyRegistry == [n \in {} |-> <<>>]

\* on() as it would be if it refused a listener that is already registered
onNoDuplicates(el, eventName, listener) ==
  IF eventName \in DOMAIN el
    THEN IF \E i \in DOMAIN el[eventName] : el[eventName][i] = listener
           THEN el
           ELSE [el EXCEPT ![eventName] = Append(@, listener)]
    ELSE (eventName :> <<listener>>) @@ el

on(el, eventName, listener) ==
  IF eventName \in DOMAIN el
    THEN [el EXCEPT ![eventName] = Append(@, listener)]
    ELSE (eventName :> <<listener>>) @@ el

\* prependListener() as it would be if it pushed instead of unshifting
prependListenerAtBack(el, eventName, listener) ==
  IF eventName \in DOMAIN el
    THEN [el EXCEPT ![eventName] = Append(@, listener)]
    ELSE (eventName :> <<listener>>) @@ el

prependListener(el, eventName, listener) ==
  IF eventName \in DOMAIN el
    THEN [el EXCEPT ![eventName] = <<listener>> \o @]
    ELSE (eventName :> <<listener>>) @@ el

\* off() as it would be if it also matched the function a once-wrapper calls
offByFunction(el, eventName, listener) ==
  IF eventName \in DOMAIN el
    THEN [el EXCEPT ![eventName] = SelectSeq(@, LAMBDA x : x.fn # listener.fn)]
    ELSE el

\* off() as it would be if it removed the first matching entry only
offFirstOnly(el, eventName, listener) ==
  IF eventName \in DOMAIN el
    THEN LET a == el[eventName]
             hits == {i \in DOMAIN a : a[i] = listener}
             k == CHOOSE i \in hits : \A j \in hits : i <= j
         IN  IF hits = {} THEN el
             ELSE [el EXCEPT ![eventName] = SubSeq(a, 1, k - 1) \o SubSeq(a, k + 1, Len(a))]
    ELSE el

off(el, eventName, listener) ==
  IF eventName \in DOMAIN el
    THEN [el EXCEPT ![eventName] = Filter(@, listener)]
    ELSE el

removeAllListeners(el, event) ==
  IF event # NoEvent
    THEN [n \in (DOMAIN el) \ {event} |-> el[n]]
    ELSE EmptyRegistry

listenerCount(el, eventName) ==
  IF eventName \in DOMAIN el THEN Len(el[eventName]) ELSE 0

\* addListener and removeListener are aliases of on and off.
addListener(el, eventName, listener) == on(el, eventName, listener)

removeListener(el, eventName, listener) == off(el, eventName, listener)

(***************************************************************************)
(* The call stack.  A frame is one emit() in progress: `arr` is the        *)
(* content of the array its for-of loop iterates, `live` tells whether     *)
(* that array is still the object stored in eventListeners (push and       *)
(* unshift change it in place; off and removeAllListeners store another    *)
(* object), `idx` is the number of listeners it has called: listener       *)
(* arr[idx] is running when idx > 0.                                       *)
(***************************************************************************)
Frame(e, name, arg, arr) ==
  [em |-> e, name |-> name, arg |-> arg, arr |-> arr, live |-> TRUE,
   idx |-> 0, n0 |-> Len(arr), inv |-> <<>>,
   snap |-> arr, op0 |-> ops + 1, c0 |-> Len(calls)]

Top(s) == s[Len(s)]

Pop(s) == SubSeq(s, 1, Len(s) - 1)

\* push/unshift change an array in place: every loop iterating that object sees
\* the new content (el is eventListeners after the change)
Sync(s, el) ==
  [i \in DOMAIN s |->
     IF s[i].live THEN [s[i] EXCEPT !.arr = el[s[i].em][s[i].name]] ELSE s[i]]

\* eventListeners[name] is assigned another array, or deleted: loops keep the old one
Detach(s, e, names) ==
  [i \in DOMAIN s |->
     IF s[i].em = e /\ s[i].name \in names /\ s[i].live
       THEN [s[i] EXCEPT !.live = FALSE] ELSE s[i]]

\* user code runs at top level, or inside a listener that is a user function
UserCode ==
  IF stack = <<>> THEN TRUE
  ELSE Top(stack).idx > 0 /\ Top(stack).inv[Top(stack).idx].kind \in {"fn", "once"}

(***************************************************************************)
(* Command.collectOutput.  Strings are sequences of character codes, so    *)
(* that text and bytes are joined by what the code does to them.           *)
(***************************************************************************)
Uint8Array(s) == [i \in DOMAIN s |-> s[i] % 256]

\* events.reduce((p, c) => new Uint8Array([...p, ...c, 10]), new Uint8Array())
RECURSIVE Reduce(_, _)
Reduce(events, p) ==
  IF events = <<>> THEN p
  ELSE Reduce(Tail(events), Uint8Array(p \o Head(events).data \o <<LF>>))

\* Array.prototype.join: the separator goes before every element but the first
RECURSIVE Join(_, _, _, _)
Join(events, sep, k, R) ==
  IF k > Len(events) THEN R
  ELSE Join(events, sep, k + 1,
            (IF k > 1 THEN R \o sep ELSE R) \o events[k].data)

\* collectOutput with the text branch ending every chunk, as the raw branch does
collectOutputTrailing(events, enc) ==
  IF enc = "raw" THEN Reduce(events, Uint8Array(<<>>))
  ELSE Reduce(events, <<>>)

\* collectOutput with the raw branch joining chunks, as the text branch does
collectOutputJoined(events, enc) == Join(events, <<LF>>, 1, <<>>)

collectOutput(events, enc) ==
  IF enc = "raw" THEN Reduce(events, Uint8Array(<<>>))
  ELSE Join(events, <<LF>>, 1, <<>>)

(***************************************************************************)
(* Promises of execute() calls: settled at most once, by the first call    *)
(* of resolve or reject.                                                   *)
(***************************************************************************)
NoOutput == [code |-> Null, signal |-> Null, stdout |-> <<>>, stderr |-> <<>>]

\* since and nested record when execute() was called: after how many delivered
\* events, and whether from inside a listener
NewPromise(since, nested) ==
  [state |-> "pending", reason |-> Chunk(<<>>), output |-> NoOutput,
   stdout |-> <<>>, stderr |-> <<>>, since |-> since, nested |-> nested]

\* reject that settles the promise without the reason
rejectWithoutReason(p, reason) ==
  IF p.state = "pending" THEN [p EXCEPT !.state = "rejected"] ELSE p

reject(p, reason) ==
  IF p.state = "pending" THEN [p EXCEPT !.state = "rejected", !.reason = reason]
  ELSE p

\* resolve that overwrites a promise already settled
resolveAgain(p, value) == [p EXCEPT !.state = "resolved", !.output = value]

resolve(p, value) ==
  IF p.state = "pending" THEN [p EXCEPT !.state = "resolved", !.output = value]
  ELSE p

\* the close listener of execute(): (payload) => resolve({...})
closeListener(p, payload, enc) ==
  resolve(p, [code |-> payload.code, signal |-> payload.signal,
              stdout |-> collectOutput(p.stdout, enc),
              stderr |-> collectOutput(p.stderr, enc)])

\* the data listeners of execute(): (line) => { stdout.push(line) }
\* the stdout listener as it would be if it stopped once the promise is settled
stdoutListenerWhilePending(p, line) ==
  IF p.state = "pending" THEN [p EXCEPT !.stdout = Append(@, line)] ELSE p

stdoutListener(p, line) == [p EXCEPT !.stdout = Append(@, line)]

stderrListener(p, line) == [p EXCEPT !.stderr = Append(@, line)]

(***************************************************************************)
(* Calling a listener.  The part of the state a listener can change is     *)
(* passed as a record st: el (eventListeners), stack, reg (registered),    *)
(* calls, prom (promises), last (lastEmit).  e and name are the emitter    *)
(* and event of the calling emit().                                        *)
(***************************************************************************)
Here ==
  [el |-> eventListeners, stack |-> stack, reg |-> registered, calls |-> calls,
   prom |-> promises, last |-> lastEmit]

Becomes(st) ==
  /\ eventListeners' = st.el
  /\ stack' = st.stack
  /\ registered' = st.reg
  /\ calls' = st.calls
  /\ promises' = st.prom
  /\ lastEmit' = st.last

Call(l, e, name, arg) ==
  [fn |-> l.fn, wrapper |-> l.id, em |-> e, name |-> name, arg |-> arg]

RemoveFromBag(b, l) == [x \in (DOMAIN b) \ {l} |-> b[x]]

\* the wrapper of once(): removeListener(eventName, wrapper), then listener(arg)
wrapper(l, e, name, arg, st) ==
  [st EXCEPT
     !.el = [@ EXCEPT ![l.em] = removeListener(@, l.name, l)],
     !.stack = IF l.name \in DOMAIN st.el[l.em] THEN Detach(@, l.em, {l.name}) ELSE @,
     !.reg = [@ EXCEPT ![l.em][l.name] = RemoveFromBag(@, l)],
     !.calls = Append(@, Call(l, e, name, arg))]

Invoke(l, e, name, arg, enc, st) ==
  CASE l.kind = "fn" -> [st EXCEPT !.calls = Append(@, Call(l, e, name, arg))]
    [] l.kind = "once" -> wrapper(l, e, name, arg, st)
    [] l.kind = "reject" -> [st EXCEPT !.prom[l.id] = reject(@, arg)]
    [] l.kind = "close" -> [st EXCEPT !.prom[l.id] = closeListener(@, arg, enc)]
    [] l.kind = "stdout" -> [st EXCEPT !.prom[l.id] = stdoutListener(@, arg)]
    [] l.kind = "stderr" -> [st EXCEPT !.prom[l.id] = stderrListener(@, arg)]

(***************************************************************************)
(* EventEmitter.emit.  The for-of loop reads the array's length anew at    *)
(* every step: it calls the next listener, or ends and emit returns true.  *)
(* The listeners execute() registers run to their end at once; a user      *)
(* function stays running, so that its body can call the emitter, until    *)
(* Return.                                                                 *)
(***************************************************************************)
NoEmit ==
  [em |-> "", name |-> "", ret |-> FALSE, n0 |-> 0, inv |-> <<>>,
   arg |-> Chunk(<<>>), snap |-> <<>>, c0 |-> 0, quiet |-> TRUE]

Returned(t, ret) ==
  [em |-> t.em, name |-> t.name, ret |-> ret, n0 |-> t.n0, inv |-> t.inv,
   arg |-> t.arg, snap |-> t.snap, c0 |-> t.c0, quiet |-> ops <= t.op0]

RECURSIVE Loop(_, _)
Loop(enc, st) ==
  LET t == Top(st.stack) IN
  IF t.idx < Len(t.arr)
    THEN LET l == t.arr[t.idx + 1]
             s1 == [st.stack EXCEPT ![Len(st.stack)].idx = @ + 1,
                                    ![Len(st.stack)].inv = Append(@, l)]
             st1 == Invoke(l, t.em, t.name, t.arg, enc, [st EXCEPT !.stack = s1])
         IN  IF l.kind \in {"fn", "once"} THEN st1 ELSE Loop(enc, st1)
    ELSE [st EXCEPT !.stack = Pop(@), !.last = Returned(t, TRUE)]

emit(e, eventName, arg, enc, st) ==
  IF eventName \in DOMAIN st.el[e]
    THEN Loop(enc, [st EXCEPT !.stack = Append(@, Frame(e, eventName, arg, st.el[e][eventName]))])
    ELSE [st EXCEPT !.last = Returned(Frame(e, eventName, arg, <<>>), FALSE)]

\* the running listener returns into the loop of the emit() that called it
Return ==
  /\ stack # <<>>
  /\ Becomes(Loop(encoding, Here))
  /\ UNCHANGED <<nextWrapper, ops, lastCall, args, frozen, typeErrors, encoding,
                 requests, delivered, listenAt>>

\* the method user code calls, on which emitter, with which name and function
NoCall == [op |-> "", em |-> "", name |-> "", fn |-> ""]

Called(op, e, eventName, f) == [op |-> op, em |-> e, name |-> eventName, fn |-> f]

(***************************************************************************)
(* The state after new Command(program, a, options), for a among the       *)
(* argument values inputs and options.encoding among encodings.            *)
(***************************************************************************)
StringArg(x) == [type |-> "string", str |-> x, arr |-> <<>>]
ArrayArg(x) == [type |-> "object", str |-> "", arr |-> x]

\* constructor: this.args = typeof args === "string" ? [args] : args
constructor(a) == IF a.type = "string" THEN <<a.str>> ELSE a.arr

Init(inputs, encodings) ==
  /\ eventListeners = [e \in Emitters |-> EmptyRegistry]
  /\ stack = <<>>
  /\ nextWrapper = 0
  /\ ops = 0
  /\ calls = <<>>
  /\ lastEmit = NoEmit
  /\ lastCall = NoCall
  /\ registered = [e \in Emitters |-> [n \in Names |-> EmptyBag]]
  /\ args \in {constructor(a) : a \in inputs}
  /\ frozen = FALSE
  /\ typeErrors = 0
  /\ encoding \in encodings
  /\ requests = <<>>
  /\ delivered = <<>>
  /\ promises = <<>>
  /\ listenAt = Null

(***************************************************************************)
(* Calls of the emitter's methods by user code.                            *)
(***************************************************************************)
once(el, e, eventName, f, id) == addListener(el, eventName, Wrapper(id, e, eventName, f))

prependOnceListener(el, e, eventName, f, id) ==
  prependListener(el, eventName, Wrapper(id, e, eventName, f))

\* the registry of e becomes el after listener l was added to eventName
Added(e, eventName, l, el) ==
  /\ eventListeners' = [eventListeners EXCEPT ![e] = el]
  /\ stack' = Sync(stack, eventListeners')
  /\ registered' = [registered EXCEPT ![e][eventName] = @ (+) SetToBag({l})]

CallOn(e, eventName, f) ==
  /\ UserCode
  /\ ops < MaxOps
  /\ ops' = ops + 1
  /\ lastCall' = Called("on", e, eventName, f)
  /\ Added(e, eventName, Fn(f), on(eventListeners[e], eventName, Fn(f)))
  /\ UNCHANGED <<nextWrapper, calls, lastEmit, commandVars>>

CallPrependListener(e, eventName, f) ==
  /\ UserCode
  /\ ops < MaxOps
  /\ ops' = ops + 1
  /\ lastCall' = Called("prependListener", e, eventName, f)
  /\ Added(e, eventName, Fn(f), prependListener(eventListeners[e], eventName, Fn(f)))
  /\ UNCHANGED <<nextWrapper, calls, lastEmit, commandVars>>

CallOnce(e, eventName, f) ==
  /\ UserCode
  /\ ops < MaxOps
  /\ ops' = ops + 1
  /\ lastCall' = Called("once", e, eventName, f)
  /\ nextWrapper' = nextWrapper + 1
  /\ Added(e, eventName, Wrapper(nextWrapper', e, eventName, f),
           once(eventListeners[e], e, eventName, f, nextWrapper'))
  /\ UNCHANGED <<calls, lastEmit, commandVars>>

CallPrependOnceListener(e, eventName, f) ==
  /\ UserCode
  /\ ops < MaxOps
  /\ ops' = ops + 1
  /\ lastCall' = Called("prependOnceListener", e, eventName, f)
  /\ nextWrapper' = nextWrapper + 1
  /\ Added(e, eventName, Wrapper(nextWrapper', e, eventName, f),
           prependOnceListener(eventListeners[e], e, eventName, f, nextWrapper'))
  /\ UNCHANGED <<calls, lastEmit, commandVars>>

CallOff(e, eventName, f) ==
  /\ UserCode
  /\ ops < MaxOps
  /\ ops' = ops + 1
  /\ lastCall' = Called("off", e, eventName, f)
  /\ eventListeners' = [eventListeners EXCEPT ![e] = off(@, eventName, Fn(f))]
  /\ stack' = IF eventName \in DOMAIN eventListeners[e]
                THEN Detach(stack, e, {eventName}) ELSE stack
  /\ registered' = [registered EXCEPT ![e][eventName] = RemoveFromBag(@, Fn(f))]
  /\ UNCHANGED <<nextWrapper, calls, lastEmit, commandVars>>

CallRemoveAllListeners(e, event) ==
  /\ UserCode
  /\ ops < MaxOps
  /\ ops' = ops + 1
  /\ lastCall' = Called("removeAllListeners", e, event, "")
  /\ eventListeners' = [eventListeners EXCEPT ![e] = removeAllListeners(@, event)]
  /\ stack' = Detach(stack, e, IF event # NoEvent THEN {event} ELSE Names)
  /\ registered' =
       [registered EXCEPT ![e] =
          [n \in Names |-> IF event # NoEvent /\ n # event THEN @[n] ELSE EmptyBag]]
  /\ UNCHANGED <<nextWrapper, calls, lastEmit, commandVars>>

CallEmit(e, eventName, arg) ==
  /\ UserCode
  /\ ops < MaxOps
  /\ ops' = ops + 1
  /\ lastCall' = Called("emit", e, eventName, "")
  /\ Becomes(emit(e, eventName, arg, encoding, Here))
  /\ UNCHANGED <<nextWrapper, args, frozen, typeErrors, encoding, requests,
                 delivered, listenAt>>

(***************************************************************************)
(* The emitter alone: user code registers, removes and emits on one        *)
(* EventEmitter in every order, also from inside its own listeners.        *)
(***************************************************************************)
EmitterNames == {"data", "close"}
EmitArgs == {Chunk(<<1>>)}

NextEmitter ==
  \/ \E n \in EmitterNames, f \in Fns : CallOn("stdout", n, f)
  \/ \E n \in EmitterNames, f \in Fns : CallPrependListener("stdout", n, f)
  \/ \E n \in EmitterNames, f \in Fns : CallOnce("stdout", n, f)
  \/ \E n \in EmitterNames, f \in Fns : CallPrependOnceListener("stdout", n, f)
  \/ \E n \in EmitterNames, f \in Fns : CallOff("stdout", n, f)
  \/ \E n \in EmitterNames \cup {NoEvent} : CallRemoveAllListeners("stdout", n)
  \/ \E n \in EmitterNames, a \in EmitArgs : CallEmit("stdout", n, a)
  \/ Return

SpecEmitter == Init({ArrayArg(<<>>)}, {"utf-8"}) /\ [][NextEmitter]_vars

(***************************************************************************)
(* The Command.  The bridge (invoke and the callback registered with       *)
(* transformCallback) is the environment: it acknowledges or rejects a     *)
(* spawn request and delivers tagged events to the request's callback, in  *)
(* any number and order.                                                   *)
(***************************************************************************)
\* class Child: the handle spawn() resolves with; NoChild while it has not
Child(pid) == [pid |-> pid]

NoChild == [pid |-> Null]

\* what a Child sent with write(), and what the bridge answered
NoWrite ==
  [called |-> FALSE, exited |-> FALSE, pid |-> Null,
   buffer |-> [type |-> "", str |-> "", arr |-> <<>>], result |-> ""]

\* a request as invoke("plugin:shell|execute") takes it: not yet answered, no
\* process id, no handle; exited, wrote and killed are what happened to its
\* process since
Pending(a, k) ==
  [args |-> a, state |-> "pending", execute |-> k, pid |-> Null, child |-> NoChild,
   exited |-> FALSE, wrote |-> NoWrite, killed |-> FALSE]

\* execute() without its Object.freeze
executeWithoutFreeze(a, fr, k) == [frozen |-> fr, request |-> Pending(a, k)]

\* function execute: freezes the array (this.args is an array, so typeof args is
\* "object"), then hands the request to invoke(), which sends a as it is now.
\* k is the execute() call the request belongs to, 0 for a plain spawn().
execute(a, fr, k) ==
  [frozen |-> TRUE, request |-> Pending(a, k)]

\* Command.spawn
spawn(k) ==
  LET r == execute(args, frozen, k) IN
  /\ frozen' = r.frozen
  /\ requests' = Append(requests, r.request)

CallSpawn ==
  /\ UserCode
  /\ ops < MaxSteps
  /\ ops' = ops + 1
  /\ spawn(0)
  /\ UNCHANGED <<eventListeners, stack, nextWrapper, calls, lastEmit, lastCall, registered,
                 args, typeErrors, encoding, delivered, promises, listenAt>>

\* Command.execute: four listeners, two buffers, then spawn()
CallExecute ==
  LET k == Len(promises) + 1 IN
  /\ UserCode
  /\ ops < MaxSteps
  /\ ops' = ops + 1
  /\ eventListeners' =
       [eventListeners EXCEPT
          !["command"] = on(on(@, "error", Closure("reject", k)),
                            "close", Closure("close", k)),
          !["stdout"] = on(@, "data", Closure("stdout", k)),
          !["stderr"] = on(@, "data", Closure("stderr", k))]
  /\ stack' = Sync(stack, eventListeners')
  /\ registered' =
       [registered EXCEPT
          !["command"]["error"] = @ (+) SetToBag({Closure("reject", k)}),
          !["command"]["close"] = @ (+) SetToBag({Closure("close", k)}),
          !["stdout"]["data"] = @ (+) SetToBag({Closure("stdout", k)}),
          !["stderr"]["data"] = @ (+) SetToBag({Closure("stderr", k)})]
  /\ promises' = Append(promises, NewPromise(Len(delivered), stack # <<>>))
  /\ spawn(k)
  /\ UNCHANGED <<nextWrapper, calls, lastEmit, lastCall, args, typeErrors, encoding,
                 delivered, listenAt>>

\* user code subscribes function f to the four events, as in the example of
\* the class comment: command.on('close', ..), command.on('error', ..),
\* command.stdout.on('data', ..), command.stderr.on('data', ..)
Listen ==
  /\ UserCode
  /\ ops < MaxSteps
  /\ ops' = ops + 1
  /\ listenAt = Null
  /\ listenAt' = Len(delivered)
  /\ eventListeners' =
       [eventListeners EXCEPT
          !["command"] = on(on(@, "close", Fn("f")), "error", Fn("f")),
          !["stdout"] = on(@, "data", Fn("f")),
          !["stderr"] = on(@, "data", Fn("f"))]
  /\ stack' = Sync(stack, eventListeners')
  /\ registered' =
       [registered EXCEPT
          !["command"]["error"] = @ (+) SetToBag({Fn("f")}),
          !["command"]["close"] = @ (+) SetToBag({Fn("f")}),
          !["stdout"]["data"] = @ (+) SetToBag({Fn("f")}),
          !["stderr"]["data"] = @ (+) SetToBag({Fn("f")})]
  /\ UNCHANGED <<nextWrapper, calls, lastEmit, lastCall, args, frozen, typeErrors,
                 encoding, requests, delivered, promises>>

\* spawn() as it would be if its promise waited for the process to end
BridgeAckAfterExit(i, pid) ==
  /\ stack = <<>>
  /\ ops < MaxSteps
  /\ ops' = ops + 1
  /\ requests[i].state = "pending"
  /\ requests[i].exited
  /\ \A j \in DOMAIN requests : requests[j].pid # pid
  /\ requests' = [requests EXCEPT ![i].state = "acked", ![i].pid = pid,
                                  ![i].child = Child(pid)]
  /\ UNCHANGED <<eventListeners, stack, nextWrapper, calls, lastEmit, lastCall, registered,
                 args, frozen, typeErrors, encoding, delivered, promises, listenAt>>

\* the bridge acknowledges request i with a process id no other process has:
\* spawn() resolves with new Child(pid)
BridgeAck(i, pid) ==
  /\ stack = <<>>
  /\ ops < MaxSteps
  /\ ops' = ops + 1
  /\ requests[i].state = "pending"
  /\ \A j \in DOMAIN requests : requests[j].pid # pid
  /\ requests' = [requests EXCEPT ![i].state = "acked", ![i].pid = pid,
                                  ![i].child = Child(pid)]
  /\ UNCHANGED <<eventListeners, stack, nextWrapper, calls, lastEmit, lastCall, registered,
                 args, frozen, typeErrors, encoding, delivered, promises, listenAt>>

\* the bridge rejects request i: spawn() rejects, and execute() had
\* this.spawn().catch(reject)
BridgeError == Chunk(<<66>>)

\* the rejection as it would be handled if execute() did not pass it on
BridgeRejectUncaught(i) ==
  /\ stack = <<>>
  /\ ops < MaxSteps
  /\ ops' = ops + 1
  /\ requests[i].state = "pending"
  /\ requests' = [requests EXCEPT ![i].state = "rejected"]
  /\ UNCHANGED <<eventListeners, stack, nextWrapper, calls, lastEmit, lastCall, registered,
                 args, frozen, typeErrors, encoding, delivered, promises, listenAt>>

BridgeReject(i) ==
  /\ stack = <<>>
  /\ ops < MaxSteps
  /\ ops' = ops + 1
  /\ requests[i].state = "pending"
  /\ requests' = [requests EXCEPT ![i].state = "rejected"]
  /\ promises' = IF requests[i].execute > 0
                   THEN [promises EXCEPT ![requests[i].execute] = reject(@, BridgeError)]
                   ELSE promises
  /\ UNCHANGED <<eventListeners, stack, nextWrapper, calls, lastEmit, lastCall, registered,
                 args, frozen, typeErrors, encoding, delivered, listenAt>>

\* the callback spawn() passes to execute: the switch on event.event
NoRoute == [em |-> "", name |-> ""]

\* the switch with the Stderr case emitting on stdout
RouteStderrToStdout(tag) ==
  CASE tag = "Error" -> [em |-> "command", name |-> "error"]
    [] tag = "Terminated" -> [em |-> "command", name |-> "close"]
    [] tag = "Stdout" -> [em |-> "stdout", name |-> "data"]
    [] tag = "Stderr" -> [em |-> "stdout", name |-> "data"]
    [] OTHER -> [em |-> "", name |-> ""]

Route(tag) ==
  CASE tag = "Error" -> [em |-> "command", name |-> "error"]
    [] tag = "Terminated" -> [em |-> "command", name |-> "close"]
    [] tag = "Stdout" -> [em |-> "stdout", name |-> "data"]
    [] tag = "Stderr" -> [em |-> "stderr", name |-> "data"]
    [] OTHER -> NoRoute

Event(tag, payload) == [event |-> tag, payload |-> payload]

Events ==
  {Event("Stdout", Chunk(<<1, 2>>)), Event("Stdout", Chunk(<<3>>)),
   Event("Stderr", Chunk(<<4>>)),
   Event("Error", Chunk(<<5>>)), Event("Error", Chunk(<<6>>)),
   Event("Terminated", Exit(0, Null)), Event("Terminated", Exit(Null, 9)),
   Event("Unknown", Chunk(<<>>))}

\* the callback is called with ev
Callback(ev) ==
  LET r == Route(ev.event) IN
  /\ delivered' = Append(delivered, [event |-> ev.event, payload |-> ev.payload,
                                     em |-> r.em, name |-> r.name])
  /\ Becomes(IF r # NoRoute THEN emit(r.em, r.name, ev.payload, encoding, Here)
               ELSE Here)

\* the bridge delivers an event of a request it did not reject
Deliver(ev) ==
  /\ stack = <<>>
  /\ ops < MaxSteps
  /\ ops' = ops + 1
  /\ \E i \in DOMAIN requests : requests[i].state # "rejected"
  /\ Callback(ev)
  /\ UNCHANGED <<nextWrapper, lastCall, args, frozen, typeErrors, encoding,
                 requests, listenAt>>

NextCommand ==
  \/ CallSpawn
  \/ CallExecute
  \/ Listen
  \/ \E i \in DOMAIN requests : BridgeAck(i, i)
  \/ \E i \in DOMAIN requests : BridgeReject(i)
  \/ \E ev \in Events : Deliver(ev)
  \/ Return

SpecCommand == Init({ArrayArg(<<>>)}, {"raw", "utf-8"}) /\ [][NextCommand]_vars

(***************************************************************************)
(* The caller keeps a reference to the array it passed to the Command and  *)
(* tries to change it: push, pop, or an assignment to its first element.   *)
(* On a frozen array each of them fails with a TypeError (or is ignored in *)
(* sloppy mode) and the array stays as it is.                              *)
(***************************************************************************)
ArgValues == {"a", "b"}

Mutated(a, op, x) ==
  CASE op = "push" -> Append(a, x)
    [] op = "pop" -> IF a = <<>> THEN a ELSE SubSeq(a, 1, Len(a) - 1)
    [] op = "set" -> IF a = <<>> THEN <<x>> ELSE [a EXCEPT ![1] = x]

MutateArgs(op, x) ==
  /\ UserCode
  /\ ops < MaxSteps
  /\ ops' = ops + 1
  /\ IF frozen
       THEN typeErrors' = typeErrors + 1 /\ UNCHANGED args
       ELSE args' = Mutated(args, op, x) /\ UNCHANGED typeErrors
  /\ UNCHANGED <<eventListeners, stack, nextWrapper, calls, lastEmit, lastCall, registered,
                 frozen, encoding, requests, delivered, promises, listenAt>>

ArgInputs == {StringArg("a"), ArrayArg(<<>>), ArrayArg(<<"a", "b">>)}

NextArgs ==
  \/ CallSpawn
  \/ CallExecute
  \/ \E op \in {"push", "pop", "set"}, x \in ArgValues : MutateArgs(op, x)
  \/ \E i \in DOMAIN requests : BridgeAck(i, i)
  \/ \E i \in DOMAIN requests : BridgeReject(i)

SpecArgs == Init(ArgInputs, {"utf-8"}) /\ [][NextArgs]_vars

(***************************************************************************)
(* Child.  The handle sends write and kill requests for its process id to   *)
(* the bridge.  The privileged side keeps the processes it spawned by id    *)
(* until they exit and announces the exit with Terminated; what it answers  *)
(* to a write is taken from its description: a failure when the id is not   *)
(* that of a process still running.                                         *)
(***************************************************************************)
Pids == {7, 8}

WriteData == {StringArg("a"), ArrayArg(<<1>>)}

\* Child.write: the message handed to invoke(); a string goes as it is, bytes
\* as a plain array
write(child, data) ==
  [cmd |-> "plugin:shell|stdin_write", pid |-> child.pid,
   buffer |-> IF data.type = "string" THEN data
              ELSE [type |-> "array", str |-> "", arr |-> data.arr]]

\* Child.kill: the message handed to invoke()
kill(child) == [cmd |-> "plugin:shell|kill", pid |-> child.pid]

\* the privileged side as it would be if it accepted data for an exited process
stdin_writeAccepted(reqs, msg) == "resolved"

\* the privileged side answers a write request
stdin_write(reqs, msg) ==
  IF \E j \in DOMAIN reqs : reqs[j].pid = msg.pid /\ ~reqs[j].exited
    THEN "resolved" ELSE "rejected"

CallWrite(i, data) ==
  LET msg == write(requests[i].child, data) IN
  /\ UserCode
  /\ ops < MaxSteps
  /\ ops' = ops + 1
  /\ requests[i].child # NoChild
  /\ ~requests[i].wrote.called
  /\ requests' =
       [requests EXCEPT
          ![i].wrote = [called |-> TRUE, exited |-> requests[i].exited,
                        pid |-> msg.pid, buffer |-> msg.buffer,
                        result |-> stdin_write(requests, msg)]]
  /\ UNCHANGED <<eventListeners, stack, nextWrapper, calls, lastEmit, lastCall, registered,
                 args, frozen, typeErrors, encoding, delivered, promises, listenAt>>

\* kill() as it would be if it cancelled the promises of the Command
CallKillCancels(i) ==
  /\ UserCode
  /\ ops < MaxSteps
  /\ ops' = ops + 1
  /\ requests[i].child # NoChild
  /\ ~requests[i].killed
  /\ kill(requests[i].child).pid = requests[i].pid
  /\ requests' = [requests EXCEPT ![i].killed = TRUE]
  /\ promises' = [k \in DOMAIN promises |-> reject(promises[k], BridgeError)]
  /\ UNCHANGED <<eventListeners, stack, nextWrapper, calls, lastEmit, lastCall, registered,
                 args, frozen, typeErrors, encoding, delivered, listenAt>>

\* Child.kill: the request is sent, and nothing else happens until the bridge
\* delivers an event
CallKill(i) ==
  /\ UserCode
  /\ ops < MaxSteps
  /\ ops' = ops + 1
  /\ requests[i].child # NoChild
  /\ ~requests[i].killed
  /\ kill(requests[i].child).pid = requests[i].pid
  /\ requests' = [requests EXCEPT ![i].killed = TRUE]
  /\ UNCHANGED <<eventListeners, stack, nextWrapper, calls, lastEmit, lastCall, registered,
                 args, frozen, typeErrors, encoding, delivered, promises, listenAt>>

\* the bridge delivers an event of the process of request i; Terminated tells
\* that the process has exited
DeliverFrom(i, ev) ==
  /\ stack = <<>>
  /\ ops < MaxSteps
  /\ ops' = ops + 1
  /\ requests[i].state # "rejected"
  /\ Callback(ev)
  /\ requests' = IF ev.event = "Terminated"
                   THEN [requests EXCEPT ![i].exited = TRUE] ELSE requests
  /\ UNCHANGED <<nextWrapper, lastCall, args, frozen, typeErrors, encoding, listenAt>>

ChildEvents ==
  {Event("Stdout", Chunk(<<1, 2>>)), Event("Error", Chunk(<<5>>)),
   Event("Terminated", Exit(0, Null)), Event("Terminated", Exit(Null, 9))}

NextChild ==
  \/ CallSpawn
  \/ CallExecute
  \/ \E i \in DOMAIN requests, pid \in Pids : BridgeAck(i, pid)
  \/ \E i \in DOMAIN requests : BridgeReject(i)
  \/ \E i \in DOMAIN requests, ev \in ChildEvents : DeliverFrom(i, ev)
  \/ \E i \in DOMAIN requests, data \in WriteData : CallWrite(i, data)
  \/ \E i \in DOMAIN requests : CallKill(i)

SpecChild == Init({ArrayArg(<<>>)}, {"utf-8"}) /\ [][NextChild]_vars

(***************************************************************************)
(* Properties of the emitter.                                              *)
(***************************************************************************)
TimesCalled(w) == Cardinality({i \in DOMAIN calls : calls[i].wrapper = w})

\* C1: the function registered by one once()/prependOnceListener() call is
\* never invoked more than once, whatever emit() calls are made, nested or not.
C1_OnceInvokedAtMostOnce ==
  \A w \in 1..nextWrapper : TimesCalled(w) <= 1

\* C2: emit() returns true exactly when the event had at least one listener
\* when it was called.
C2_EmitTrueIffListeners ==
  lastEmit # NoEmit => (lastEmit.ret <=> lastEmit.n0 > 0)

\* C3: listenerCount(name) is the number of entries registered and not removed,
\* a function registered k times counting k times, and 0 for an unused name.
C3_ListenerCountIsRegistered ==
  \A e \in Emitters : \A n \in Names :
    listenerCount(eventListeners[e], n) = BagCardinality(registered[e][n])

\* on(f), on(f), once(g) on one name, and a removal on the other
C3_Witness ==
  /\ listenerCount(eventListeners["stdout"], "data") = 3
  /\ CopiesIn(Fn("f"), registered["stdout"]["data"]) = 2
  /\ nextWrapper = 1
  /\ listenerCount(eventListeners["stdout"], "close") = 0

(***************************************************************************)
(* Properties of execute().  The events of an execute() call are those     *)
(* delivered after it was called; its request is the one it issued.        *)
(***************************************************************************)
Request(k) == CHOOSE i \in DOMAIN requests : requests[i].execute = k

Terminals(k) ==
  {i \in (promises[k].since + 1)..Len(delivered) :
     delivered[i].event \in {"Error", "Terminated"}}

FirstTerminal(k) == CHOOSE i \in Terminals(k) : \A j \in Terminals(k) : i <= j

\* the chunks with the given tag delivered to call k before event number upto
Chunks(k, tag, upto) ==
  LET got == SelectSeq(SubSeq(delivered, promises[k].since + 1, upto - 1),
                       LAMBDA d : d.event = tag)
  IN  [i \in DOMAIN got |-> got[i].payload.data]

\* execute() number k was called by top-level code, the bridge did not reject its
\* request, and no listener is running
Quiet(k) ==
  /\ stack = <<>>
  /\ ~promises[k].nested
  /\ requests[Request(k)].state # "rejected"

EndsWith(k, tag) ==
  /\ Terminals(k) # {}
  /\ delivered[FirstTerminal(k)].event = tag

\* C4: when the first terminal event of an execute() call is an Error, its promise
\* is rejected with that event's payload as soon as the event is dispatched, close
\* or no close, and it never carries a resolved value.
C4_ErrorRejects ==
  \A k \in DOMAIN promises :
    Quiet(k) /\ EndsWith(k, "Error") =>
      /\ promises[k].state = "rejected"
      /\ promises[k].reason = delivered[FirstTerminal(k)].payload
      /\ promises[k].output = NoOutput

\* chunks were buffered, then Error, then Terminated: still rejected with the Error
C4_Witness ==
  \E k \in DOMAIN promises :
    /\ Quiet(k) /\ EndsWith(k, "Error")
    /\ promises[k].stdout # <<>>
    /\ delivered[Len(delivered)].event = "Terminated"
    /\ promises[k].reason = Chunk(<<6>>)

RECURSIVE Lines(_)
Lines(cs) ==
  IF cs = <<>> THEN <<>>
  ELSE IF Len(cs) = 1 THEN cs[1]
  ELSE cs[1] \o <<LF>> \o Lines(Tail(cs))

\* C5: in text mode, when the first terminal event of an execute() call is
\* Terminated{code, signal}, its promise is resolved with that code and signal,
\* and stdout (stderr) is the Stdout (Stderr) chunks received before it, in
\* arrival order, with one newline between two chunks and none at the end.
C5_TextOutputJoined ==
  \A k \in DOMAIN promises :
    encoding # "raw" /\ Quiet(k) /\ EndsWith(k, "Terminated") =>
      LET t == FirstTerminal(k) IN
      /\ promises[k].state = "resolved"
      /\ promises[k].output =
           [code |-> delivered[t].payload.code,
            signal |-> delivered[t].payload.signal,
            stdout |-> Lines(Chunks(k, "Stdout", t)),
            stderr |-> Lines(Chunks(k, "Stderr", t))]

C5_Witness ==
  /\ encoding = "utf-8"
  /\ promises # <<>>
  /\ Quiet(1) /\ EndsWith(1, "Terminated")
  /\ promises[1].output =
       [code |-> 0, signal |-> Null, stdout |-> <<1, 2, LF, 3>>, stderr |-> <<4>>]

RECURSIVE EachThenLF(_)
EachThenLF(cs) ==
  IF cs = <<>> THEN <<>> ELSE cs[1] \o <<LF>> \o EachThenLF(Tail(cs))

\* C6: in raw mode, the aggregated output of a stream is every chunk received
\* before the Terminated event, in arrival order, each followed by the byte 10.
C6_RawOutputTerminated ==
  \A k \in DOMAIN promises :
    encoding = "raw" /\ Quiet(k) /\ EndsWith(k, "Terminated") =>
      LET t == FirstTerminal(k) IN
      /\ promises[k].state = "resolved"
      /\ promises[k].output.stdout = EachThenLF(Chunks(k, "Stdout", t))
      /\ promises[k].output.stderr = EachThenLF(Chunks(k, "Stderr", t))

C6_Witness ==
  /\ encoding = "raw"
  /\ promises # <<>>
  /\ Quiet(1) /\ EndsWith(1, "Terminated")
  /\ promises[1].output.stdout = <<1, 2, LF, 3, LF>>
  /\ promises[1].output.stderr = <<>>

(***************************************************************************)
(* Properties of the session's callback.  Function f, subscribed by        *)
(* Listen, is the observer: calls is what it saw.                          *)
(***************************************************************************)
Terminal(name) == name \in {"error", "close"}

\* C7: the listeners of a single session see nothing after a terminal event
\* (error or close).
C7_InertAfterTerminal ==
  Len(requests) = 1 =>
    \A i \in DOMAIN calls : \A j \in DOMAIN calls :
      i < j => ~Terminal(calls[i].name)

Destination(tag) ==
  CASE tag = "Stdout" -> <<"stdout", "data">>
    [] tag = "Stderr" -> <<"stderr", "data">>
    [] tag = "Error" -> <<"command", "error">>
    [] tag = "Terminated" -> <<"command", "close">>

Known == {"Stdout", "Stderr", "Error", "Terminated"}

\* what the observer saw on one stream, and what was delivered for that stream
\* since it subscribed
SeenOn(dest) ==
  LET got == SelectSeq(calls, LAMBDA c : <<c.em, c.name>> = dest)
  IN  [i \in DOMAIN got |-> got[i].arg]

DeliveredFor(dest) ==
  LET got == SelectSeq(SubSeq(delivered, listenAt + 1, Len(delivered)),
                       LAMBDA d : d.event \in Known /\ Destination(d.event) = dest)
  IN  [i \in DOMAIN got |-> got[i].payload]

\* C8: the callback emits every Stdout, Stderr, Error and Terminated event on its
\* own emitter and event name and nowhere else, and a listener of a stream sees
\* the payloads delivered for that stream, unchanged and in delivery order.
C8_RoutedInOrder ==
  /\ \A i \in DOMAIN delivered :
       delivered[i].event \in Known =>
         <<delivered[i].em, delivered[i].name>> = Destination(delivered[i].event)
  /\ listenAt # Null =>
       \A tag \in Known : SeenOn(Destination(tag)) = DeliveredFor(Destination(tag))

C8_Witness ==
  /\ listenAt = 0
  /\ SeenOn(<<"stdout", "data">>) = <<Chunk(<<3>>), Chunk(<<1, 2>>)>>
  /\ SeenOn(<<"stderr", "data">>) = <<Chunk(<<4>>)>>
  /\ delivered[2].event = "Stderr"

\* C9: an event with an unknown tag, and a terminal event that follows another
\* one in a single session, make the callback emit an error.
C9_ProtocolErrorSurfaced ==
  \A i \in DOMAIN delivered :
    \/ delivered[i].event \notin Known
    \/ /\ Len(requests) = 1
       /\ delivered[i].event \in {"Error", "Terminated"}
       /\ \E j \in 1..(i - 1) : delivered[j].event \in {"Error", "Terminated"}
    => delivered[i].name = "error"

(***************************************************************************)
(* Property of the argument array.                                         *)
(***************************************************************************)
\* C10: the array held by the Command is, at any time after a spawn request was
\* issued, what was sent in that request: no later mutation changes it.
C10_SentArgsUnchanged ==
  \A i \in DOMAIN requests : requests[i].args = args

C10_Witness ==
  /\ requests # <<>>
  /\ typeErrors > 0
  /\ args = <<"a", "b">>

(***************************************************************************)
(* Properties of single calls of an EventEmitter method: a step is a call  *)
(* of method op when it counts one more call and lastCall names op.        *)
(***************************************************************************)
Listeners(el, name) == IF name \in DOMAIN el THEN el[name] ELSE <<>>

IsCall(op) == ops' = ops + 1 /\ lastCall'.op = op

OthersKept(e, name) ==
  /\ \A n \in Names \ {name} :
       Listeners(eventListeners'[e], n) = Listeners(eventListeners[e], n)
  /\ \A d \in Emitters \ {e} : eventListeners'[d] = eventListeners[d]

\* C13: off(name, fn) removes every entry of name that is fn, not only the
\* first, keeps the other entries of name in their order, and leaves every
\* other name as it was; when fn is not registered for name nothing changes.
C13_OffRemovesEveryMatch ==
  [][IsCall("off") =>
       LET e == lastCall'.em
           name == lastCall'.name
           before == Listeners(eventListeners[e], name)
           after == Listeners(eventListeners'[e], name)
       IN  /\ after = SelectSeq(before, LAMBDA x : x # Fn(lastCall'.fn))
           /\ OthersKept(e, name)
           /\ DOMAIN eventListeners'[e] = DOMAIN eventListeners[e]
           /\ (\A i \in DOMAIN before : before[i] # Fn(lastCall'.fn)) => after = before]_vars

\* off("data", f) was the fourth call and left g alone: of the three calls
\* before it one registered g and the others registered f
C13_Witness ==
  /\ lastCall = Called("off", "stdout", "data", "f")
  /\ ops = 4
  /\ eventListeners["stdout"] = ("data" :> <<Fn("g")>>)
  /\ registered["stdout"]["data"] = SetToBag({Fn("g")})
  /\ nextWrapper = 0
  /\ lastEmit = NoEmit

OnceEntries(arr) == SelectSeq(arr, LAMBDA x : x.kind = "once")

\* C20: off(name, fn) does not remove a registration that once(name, fn) or
\* prependOnceListener(name, fn) made, because the entry is a wrapper and not
\* fn: the wrappers of name are all still registered and counted after the
\* call, and an emit(name) that finds a wrapper first calls its function once
\* and only then drops it.
C20_OffKeepsOnceEntries ==
  [][LET e == lastCall'.em
         name == lastCall'.name
         before == Listeners(eventListeners[e], name)
         after == Listeners(eventListeners'[e], name)
     IN  /\ IsCall("off") =>
               /\ OnceEntries(after) = OnceEntries(before)
               /\ listenerCount(eventListeners'[e], name) >= Len(OnceEntries(before))
         /\ IsCall("emit") /\ before # <<>> /\ before[1].kind = "once" =>
               /\ Len(calls') = Len(calls) + 1
               /\ calls'[Len(calls')].fn = before[1].fn
               /\ calls'[Len(calls')].wrapper = before[1].id
               /\ after = Tail(before)]_vars

\* once("data", f) or prependOnceListener("data", f), then off("data", f)
C20_Witness ==
  /\ lastCall = Called("off", "stdout", "data", "f")
  /\ ops = 2
  /\ eventListeners["stdout"] = ("data" :> <<Wrapper(1, "stdout", "data", "f")>>)
  /\ listenerCount(eventListeners["stdout"], "data") = 1

\* the entry a registering call adds: the function, or the wrapper just created
Entry(c, id) ==
  IF c.op \in {"on", "prependListener"} THEN Fn(c.fn)
  ELSE Wrapper(id, c.em, c.name, c.fn)

\* a is b with some elements left out
RECURSIVE IsSubSeq(_, _)
IsSubSeq(a, b) ==
  IF a = <<>> THEN TRUE
  ELSE IF b = <<>> THEN FALSE
  ELSE IF Head(a) = Head(b) THEN IsSubSeq(Tail(a), Tail(b))
  ELSE IsSubSeq(a, Tail(b))

\* C12: on and once put the new entry at the back of the list of name,
\* prependListener and prependOnceListener at the front, and leave the other
\* lists alone.  An emit(name, arg) that returns has invoked, in list order,
\* every listener that was registered for name when it was called; when no
\* method of the emitter was called while it ran, it invoked exactly these,
\* each once with arg, and no function was called for another name.
C12_EmitInvokesAllInOrder ==
  [][LET e == lastCall'.em
         name == lastCall'.name
         before == Listeners(eventListeners[e], name)
         after == Listeners(eventListeners'[e], name)
         entry == Entry(lastCall', nextWrapper')
         last == lastEmit'
     IN  /\ IsCall("on") \/ IsCall("once") =>
               after = Append(before, entry) /\ OthersKept(e, name)
         /\ IsCall("prependListener") \/ IsCall("prependOnceListener") =>
               after = <<entry>> \o before /\ OthersKept(e, name)
         /\ last # lastEmit =>
               /\ IsSubSeq(last.snap, last.inv)
               /\ last.quiet =>
                     /\ last.inv = last.snap
                     /\ Len(calls') = last.c0 + Len(last.inv)
                     /\ \A i \in DOMAIN last.inv :
                          calls'[last.c0 + i] = Call(last.inv[i], last.em, last.name, last.arg)]_vars

\* emit("data") has returned after calling g, g and f, which is the order in
\* which prependListener, on and prependListener had left them
C12_Witness ==
  /\ lastEmit.ret
  /\ lastEmit.quiet
  /\ lastEmit.inv = <<Fn("g"), Fn("g"), Fn("f")>>
  /\ lastEmit.snap = lastEmit.inv
  /\ Len(calls) = 3
  /\ calls[1].fn = "g" /\ calls[3].fn = "f"
  /\ stack = <<>>

C14_SpawnRejectionRejects ==
  [][\A i \in DOMAIN requests :
       requests[i].state = "pending" /\ requests'[i].state = "rejected" =>
         LET k == requests[i].execute IN
         /\ k > 0 /\ promises[k].state = "pending" =>
               promises'[k].state = "rejected" /\ promises'[k].reason = BridgeError
         /\ \A j \in DOMAIN promises : j # k => promises'[j] = promises[j]
         /\ calls' = calls
         /\ lastEmit' = lastEmit
         /\ delivered' = delivered
         /\ stack' = <<>>]_vars

\* user code listens to close and error, execute() is called, the bridge
\* rejects: the promise holds the bridge's failure and the listener never ran
C14_Witness ==
  /\ listenAt = 0
  /\ Len(requests) = 1
  /\ requests[1].state = "rejected"
  /\ requests[1].execute = 1
  /\ promises[1].state = "rejected"
  /\ promises[1].reason = BridgeError
  /\ calls = <<>>
  /\ delivered = <<>>

\* the event the callback is dispatching, or has dispatched last
InDispatch == delivered'[Len(delivered')]

\* C18: the promise of execute() settles at most once.  It leaves the pending
\* state only when an Error is dispatched (rejected with its payload), when a
\* Terminated is dispatched (resolved with its code and signal) or when the
\* bridge rejects its spawn request (rejected with that failure); once
\* settled, no later event changes its state, its reason or its value.
C18_SettlesOnce ==
  [][\A k \in DOMAIN promises :
       LET p == promises[k]
           q == promises'[k]
       IN  /\ p.state # "pending" =>
                 q.state = p.state /\ q.reason = p.reason /\ q.output = p.output
           /\ p.state = "pending" /\ q.state # "pending" =>
                 \/ /\ requests'[Request(k)].state = "rejected"
                    /\ requests[Request(k)].state = "pending"
                    /\ q.state = "rejected" /\ q.reason = BridgeError
                 \/ /\ delivered' # <<>>
                    /\ InDispatch.event = "Error"
                    /\ q.state = "rejected" /\ q.reason = InDispatch.payload
                 \/ /\ delivered' # <<>>
                    /\ InDispatch.event = "Terminated"
                    /\ q.state = "resolved"
                    /\ q.output.code = InDispatch.payload.code
                    /\ q.output.signal = InDispatch.payload.signal]_vars

\* resolved by a Terminated with code 0; the Error and the second Terminated
\* that followed changed nothing
C18_Witness ==
  /\ Len(promises) = 1
  /\ promises[1].state = "resolved"
  /\ promises[1].output.code = 0
  /\ Len(delivered) = 3
  /\ delivered[1].event = "Terminated"
  /\ delivered[2].event = "Error"
  /\ delivered[3].payload = Exit(Null, 9)
  /\ stack = <<>>

\* the four lists execute() registers on, with the kind of listener it adds
ExecuteChannels ==
  {<<"command", "error", "reject">>, <<"command", "close", "close">>,
   <<"stdout", "data", "stdout">>, <<"stderr", "data", "stderr">>}

\* every payload with the given tag delivered since execute() number k was called
Payloads(k, tag) ==
  LET got == SelectSeq(SubSeq(delivered, promises[k].since + 1, Len(delivered)),
                       LAMBDA d : d.event = tag)
  IN  [i \in DOMAIN got |-> got[i].payload]

\* C19: every execute() call adds one listener of its own to error, close,
\* stdout data and stderr data and none is ever removed: after n calls each of
\* the four lists has n entries (one more when user code subscribed too), and
\* the buffers of every call, settled or not, receive every later chunk, those
\* of later runs included.
C19_ExecuteListenersAccumulate ==
  /\ \A ch \in ExecuteChannels :
       LET arr == Listeners(eventListeners[ch[1]], ch[2]) IN
       /\ listenerCount(eventListeners[ch[1]], ch[2]) =
            Len(promises) + (IF listenAt # Null THEN 1 ELSE 0)
       /\ \A k \in DOMAIN promises :
            Len(SelectSeq(arr, LAMBDA l : l = Closure(ch[3], k))) = 1
  /\ \A k \in DOMAIN promises :
       stack = <<>> /\ ~promises[k].nested =>
         /\ promises[k].stdout = Payloads(k, "Stdout")
         /\ promises[k].stderr = Payloads(k, "Stderr")

\* execute(), Terminated, execute(), Stdout: the chunk of the second run is
\* also in the buffer of the first call, whose promise was resolved without it
C19_Witness ==
  /\ Len(promises) = 2
  /\ listenAt = Null
  /\ stack = <<>>
  /\ promises[1].state = "resolved"
  /\ promises[1].output.stdout = <<>>
  /\ promises[2].since = 1
  /\ Len(delivered) = 2
  /\ delivered[2].event = "Stdout"
  /\ promises[1].stdout = <<delivered[2].payload>>
  /\ promises[2].stdout = <<delivered[2].payload>>
  /\ listenerCount(eventListeners["stdout"], "data") = 2
  /\ listenerCount(eventListeners["command"], "close") = 2

(***************************************************************************)
(* Properties of spawn() and of the Child it resolves with.                 *)
(***************************************************************************)
\* C17: spawn() resolves when the bridge acknowledges the request, with a
\* Child whose pid is the id the bridge returned, and not before; the
\* acknowledgment can be taken whether or not the Terminated event of the
\* process has been delivered, so the resolution never waits for the
\* process to end.
C17_SpawnResolvesOnAck ==
  \A i \in DOMAIN requests :
    /\ requests[i].state = "acked" =>
          requests[i].pid \in Pids /\ requests[i].child = Child(requests[i].pid)
    /\ requests[i].state # "acked" => requests[i].child = NoChild
    /\ requests[i].state = "pending" /\ ops < MaxSteps =>
          \A pid \in Pids :
            (\A j \in DOMAIN requests : requests[j].pid # pid) => ENABLED BridgeAck(i, pid)

\* two sessions, both acknowledged: the process of the first has exited, that
\* of the second is still running
C17_Witness ==
  /\ Len(requests) = 2
  /\ requests[1].state = "acked" /\ requests[1].exited
  /\ requests[1].child = Child(requests[1].pid)
  /\ requests[2].state = "acked" /\ ~requests[2].exited
  /\ requests[2].child = Child(requests[2].pid)
  /\ requests[1].pid # requests[2].pid
  /\ delivered[Len(delivered)].event = "Terminated"

\* C15: kill() on the Child of a session does not settle the promise of the
\* session's execute(): after kill() the promise is pending as long as no
\* Error or Terminated event has been delivered since execute() was called,
\* and once one has been, the promise is settled by the first of them.
C15_KillDoesNotSettle ==
  \A k \in DOMAIN promises :
    requests[Request(k)].killed =>
      /\ Terminals(k) = {} => promises[k].state = "pending"
      /\ EndsWith(k, "Error") =>
            /\ promises[k].state = "rejected"
            /\ promises[k].reason = delivered[FirstTerminal(k)].payload
      /\ EndsWith(k, "Terminated") =>
            /\ promises[k].state = "resolved"
            /\ promises[k].output.signal = delivered[FirstTerminal(k)].payload.signal

\* execute(), acknowledgment, kill(), then a chunk: still pending
C15_Witness ==
  /\ Len(promises) = 1
  /\ requests[Request(1)].killed
  /\ promises[1].state = "pending"
  /\ Len(delivered) = 1
  /\ promises[1].stdout = <<Chunk(<<1, 2>>)>>

\* C11: a write() on a Child whose process has been announced as Terminated
\* ends in a rejected promise, never in a resolved one.
C11_WriteAfterTerminatedRejects ==
  \A i \in DOMAIN requests :
    requests[i].wrote.called /\ requests[i].wrote.exited =>
      requests[i].wrote.result = "rejected"

\* bytes were written to the handle of a process after its Terminated event
C11_Witness ==
  \E i \in DOMAIN requests :
    /\ requests[i].wrote.called /\ requests[i].wrote.exited
    /\ requests[i].wrote.pid = requests[i].pid
    /\ requests[i].wrote.buffer.arr = <<1>>
    /\ requests[i].wrote.result = "rejected"
    /\ \E ev \in DOMAIN delivered : delivered[ev].event = "Terminated"

====
